---- MODULE Spec2Model ----
(***************************************************************************)
(* A model of the mathlib sample shared library                            *)
(* (samples/source/library/mathlib.c): its two globals, every exported     *)
(* operation, and the caller-side objects the operations read.             *)
(*                                                                         *)
(* TLC's integers are 32-bit, exactly the width of C's int on the targets  *)
(* the library is built for.  Values that do not fit (an exact sum, an     *)
(* unsigned seed above INT_MAX, a long long factorial) are carried in      *)
(* limbs, so that an overflow is something the model observes instead of   *)
(* something the model checker suffers.                                    *)
(***************************************************************************)
EXTENDS Integers, Sequences, FiniteSets, TLC

(* ------------------------------------------------------------------ *)
(* Program constants                                                  *)
(* ------------------------------------------------------------------ *)
INT_MAX == 2147483647
INT_MIN == (-2147483647) - 1
RAND_MAX == 2147483647
LCG_A == 1103515245
LCG_C == 12345
INIT_SEED == 12345
VERSION_MAJOR == 1
VERSION_MINOR == 0
VERSION_STRING == "1.0.0"
FACT_LIMIT == 20

(* ------------------------------------------------------------------ *)
(* Bounds of the model                                                *)
(* ------------------------------------------------------------------ *)
\* calls made in one behaviour (the counter itself is a C int)
MaxCalls == 3
\* how far the arithmetic inputs reach from INT_MIN, 0 and INT_MAX
EdgeK == 1
\* longest caller array
MaxLen == 3
\* factorial arguments range over -2 .. FACT_LIMIT + MaxFactOver
MaxFactOver == 3
\* fibonacci arguments range over -1 .. MaxFibN
MaxFibN == 12
\* is_prime arguments range over -2 .. MaxPrimeN
MaxPrimeN == 175
\* gcd arguments range over -MaxGcdN .. MaxGcdN (and the test's 48 and 18)
MaxGcdN == 8
\* concurrent callers, and the calls each of them makes
NThreads == 2
CallsPerThread == 2

(* ------------------------------------------------------------------ *)
(* C int arithmetic.  A "wide" value <<h, l>> stands for h*65536 + l  *)
(* with 0 <= l < 65536: wide enough for the exact sum or difference   *)
(* of any two ints.                                                   *)
(* ------------------------------------------------------------------ *)
W(x) == <<x \div 65536, x % 65536>>

WAdd(p, q) == LET lo == p[2] + q[2] IN <<p[1] + q[1] + (lo \div 65536), lo % 65536>>

WSub(p, q) == LET lo == p[2] - q[2] IN <<p[1] - q[1] + (lo \div 65536), lo % 65536>>

\* the wide value is representable as an int
WFits(p) == p[1] >= -32768 /\ p[1] <= 32767

\* the int a two's complement machine keeps of a wide value
WWrap(p) == (((p[1] + 32768) % 65536) - 32768) * 65536 + p[2]

\* An evaluated C expression: the value a wrapping build computes, and
\* whether evaluating it was undefined behaviour (signed overflow).
Val(v) == [val |-> v, ub |-> FALSE]

NoEval == [val |-> 0, ub |-> FALSE]

CAdd(x, y) == LET w == WAdd(W(x), W(y)) IN [val |-> WWrap(w), ub |-> ~WFits(w)]

CSub(x, y) == LET w == WSub(W(x), W(y)) IN [val |-> WWrap(w), ub |-> ~WFits(w)]

\* abs() of <stdlib.h>: abs(INT_MIN) is undefined; a wrapping build yields INT_MIN
CAbs(x) ==
    IF x = INT_MIN THEN [val |-> INT_MIN, ub |-> TRUE]
    ELSE Val(IF x < 0 THEN -x ELSE x)

\* C's truncating x / y for a dividend x >= 0 and y # 0
CDiv(x, y) ==
    IF y > 0 THEN x \div y
    ELSE IF y = INT_MIN THEN 0
    ELSE -(x \div (-y))

\* the exact product x*y is representable as an int
MulFits(x, y) ==
    IF x = 0 \/ y = 0 THEN TRUE
    ELSE IF x > 0 /\ y > 0 THEN x <= INT_MAX \div y
    ELSE IF x < 0 /\ y < 0 THEN
        x # INT_MIN /\ y # INT_MIN /\ (-x) <= INT_MAX \div (-y)
    ELSE LET pos == IF x > 0 THEN x ELSE y
             neg == IF x > 0 THEN y ELSE x
             q == INT_MIN \div pos
         IN neg >= (IF INT_MIN % pos = 0 THEN q ELSE q + 1)

(* ------------------------------------------------------------------ *)
(* 32-bit patterns as four bytes, least significant first: unsigned   *)
(* int, and the two's complement of int.                              *)
(* ------------------------------------------------------------------ *)
IntBytes(x) ==
    <<x % 256, (x \div 256) % 256, (x \div 65536) % 256, (x \div 16777216) % 256>>

\* the int whose two's complement the bytes are
BytesInt(b) ==
    (IF b[4] >= 128 THEN b[4] - 256 ELSE b[4]) * 16777216
        + b[3] * 65536 + b[2] * 256 + b[1]

\* x * y mod 2^32
U32Mul(x, y) ==
    LET c1 == x[1] * y[1]
        c2 == x[1] * y[2] + x[2] * y[1] + (c1 \div 256)
        c3 == x[1] * y[3] + x[2] * y[2] + x[3] * y[1] + (c2 \div 256)
        c4 == x[1] * y[4] + x[2] * y[3] + x[3] * y[2] + x[4] * y[1] + (c3 \div 256)
    IN <<c1 % 256, c2 % 256, c3 % 256, c4 % 256>>

\* x + y mod 2^32
U32Add(x, y) ==
    LET c1 == x[1] + y[1]
        c2 == x[2] + y[2] + (c1 \div 256)
        c3 == x[3] + y[3] + (c2 \div 256)
        c4 == x[4] + y[4] + (c3 \div 256)
    IN <<c1 % 256, c2 % 256, c3 % 256, c4 % 256>>

\* x & 0x7fffffff
U32Mask31(x) == <<x[1], x[2], x[3], x[4] % 128>>

\* x % RAND_MAX, as an int
U32ModRandMax(x) ==
    LET low == BytesInt(U32Mask31(x))
    IN IF x[4] >= 128 THEN ((low % RAND_MAX) + 1) % RAND_MAX ELSE low % RAND_MAX

\* a * b as a wrapping build computes it, undefined when the product does not fit
CMul(x, y) ==
    IF MulFits(x, y) THEN Val(x * y)
    ELSE [val |-> BytesInt(U32Mul(IntBytes(x), IntBytes(y))), ub |-> TRUE]

\* C's x % y (the sign follows the dividend), y # 0; INT_MIN % -1 is undefined
CRem(x, y) ==
    IF x >= 0 /\ y > 0 THEN Val(x % y)
    ELSE IF y = INT_MIN THEN Val(IF x = INT_MIN THEN 0 ELSE x)
    ELSE LET m == IF y < 0 THEN -y ELSE y
         IN IF x = INT_MIN THEN [val |-> -(((INT_MAX % m) + 1) % m), ub |-> y = -1]
            ELSE IF x < 0 THEN Val(-((-x) % m))
            ELSE Val(x % m)

(* ------------------------------------------------------------------ *)
(* long long, as sign and magnitude; the magnitude in four base-10^6  *)
(* limbs, least significant first (room for 10^24 > 2^63).            *)
(* ------------------------------------------------------------------ *)
LLBase == 1000000

LLMag(k) == <<k % LLBase, k \div LLBase, 0, 0>>

LL(k) == IF k < 0 THEN [sign |-> -1, mag |-> LLMag(-k)] ELSE [sign |-> 1, mag |-> LLMag(k)]

\* LLONG_MAX = 9223372036854775807
LL_MAX_MAG == <<775807, 36854, 223372, 9>>

\* magnitude m times a small int i >= 0
LLMulSmall(m, i) ==
    LET c1 == m[1] * i
        c2 == m[2] * i + (c1 \div LLBase)
        c3 == m[3] * i + (c2 \div LLBase)
        c4 == m[4] * i + (c3 \div LLBase)
    IN <<c1 % LLBase, c2 % LLBase, c3 % LLBase, c4>>

\* m <= n, for magnitudes
LLMagLeq(m, n) ==
    \/ m[4] < n[4]
    \/ m[4] = n[4] /\ m[3] < n[3]
    \/ m[4] = n[4] /\ m[3] = n[3] /\ m[2] < n[2]
    \/ m[4] = n[4] /\ m[3] = n[3] /\ m[2] = n[2] /\ m[1] <= n[1]

\* a non-negative long long of this magnitude exists
LLFits(m) == LLMagLeq(m, LL_MAX_MAG)

(* ------------------------------------------------------------------ *)
(* The functions of mathlib.c, as the values they compute.  Each      *)
(* yields [val, ub]: ub says the evaluation ran into undefined        *)
(* behaviour, val is then what a wrapping build returns.              *)
(* ------------------------------------------------------------------ *)

\* mathlib_add without its second test (b < 0 && a < INT_MIN - b): the lower
\* limit is then left unguarded
add_eval_upper_only(a, b) ==
    LET m1 == IF b > 0 THEN CSub(INT_MAX, b) ELSE NoEval
        c1 == b > 0 /\ a > m1.val
        s == IF c1 THEN Val(0) ELSE CAdd(a, b)
    IN [val |-> s.val, ub |-> m1.ub \/ s.ub, pre |-> m1.ub]

\* mathlib_add, after the counter: the pre-check and the sum.
\* pre records whether the pre-check itself overflowed.
add_eval(a, b) ==
    LET m1 == IF b > 0 THEN CSub(INT_MAX, b) ELSE NoEval
        c1 == b > 0 /\ a > m1.val
        m2 == IF ~c1 /\ b < 0 THEN CSub(INT_MIN, b) ELSE NoEval
        c2 == ~c1 /\ b < 0 /\ a < m2.val
        s == IF c1 \/ c2 THEN Val(0) ELSE CAdd(a, b)
    IN [val |-> s.val, ub |-> m1.ub \/ m2.ub \/ s.ub, pre |-> m1.ub \/ m2.ub]

\* mathlib_subtract, after the counter
subtract_eval(a, b) ==
    LET m1 == IF b < 0 THEN CAdd(INT_MAX, b) ELSE NoEval
        c1 == b < 0 /\ a > m1.val
        m2 == IF ~c1 /\ b > 0 THEN CAdd(INT_MIN, b) ELSE NoEval
        c2 == ~c1 /\ b > 0 /\ a < m2.val
        s == IF c1 \/ c2 THEN Val(0) ELSE CSub(a, b)
    IN [val |-> s.val, ub |-> m1.ub \/ m2.ub \/ s.ub, pre |-> m1.ub \/ m2.ub]

\* mathlib_multiply, after the counter
multiply_eval(a, b) ==
    LET ab == IF a # 0 THEN CAbs(b) ELSE NoEval
        aa == IF a # 0 THEN CAbs(a) ELSE NoEval
        over == a # 0 /\ ab.val > CDiv(INT_MAX, aa.val)
        p == IF over THEN Val(0) ELSE CMul(a, b)
    IN [val |-> p.val, ub |-> ab.ub \/ aa.ub \/ p.ub]

\* the loop of mathlib_factorial without i <= 20 in its condition
RECURSIVE factorial_loop_uncapped(_, _, _)
factorial_loop_uncapped(n, i, st) ==
    IF i <= n
    THEN LET p == LLMulSmall(st.result, i)
         IN factorial_loop_uncapped(n, i + 1,
                [result |-> p, iters |-> st.iters + 1, ub |-> st.ub \/ ~LLFits(p)])
    ELSE st

\* the for loop of mathlib_factorial: st = [result, iters, ub]
RECURSIVE factorial_loop(_, _, _)
factorial_loop(n, i, st) ==
    IF i <= n /\ i <= FACT_LIMIT
    THEN LET p == LLMulSmall(st.result, i)
         IN factorial_loop(n, i + 1,
                [result |-> p, iters |-> st.iters + 1, ub |-> st.ub \/ ~LLFits(p)])
    ELSE st

\* mathlib_factorial, after the counter: [ll (the long long), ub, iters]
factorial_eval(n) ==
    IF n < 0 THEN [ll |-> LL(-1), ub |-> FALSE, iters |-> 0]
    ELSE IF n = 0 \/ n = 1 THEN [ll |-> LL(1), ub |-> FALSE, iters |-> 0]
    ELSE LET st == factorial_loop(n, 2, [result |-> LLMag(1), iters |-> 0, ub |-> FALSE])
         IN [ll |-> [sign |-> 1, mag |-> st.result], ub |-> st.ub, iters |-> st.iters]

\* the for loop of mathlib_fibonacci
RECURSIVE fibonacci_loop(_, _, _, _, _)
fibonacci_loop(n, i, a, b, ub) ==
    IF i <= n
    THEN LET temp == CAdd(a, b)
         IN fibonacci_loop(n, i + 1, b, temp.val, ub \/ temp.ub)
    ELSE [val |-> b, ub |-> ub]

\* mathlib_fibonacci, after the counter
fibonacci_eval(n) ==
    IF n <= 0 THEN Val(0)
    ELSE IF n = 1 THEN Val(1)
    ELSE fibonacci_loop(n, 2, 0, 1, FALSE)

\* the loop of mathlib_is_prime with i * i < n for i * i <= n
RECURSIVE is_prime_loop_strict(_, _, _)
is_prime_loop_strict(n, i, ub) ==
    LET sq == CMul(i, i)
    IN IF sq.val < n
       THEN IF n % i = 0 \/ n % (i + 2) = 0
            THEN [val |-> 0, ub |-> ub \/ sq.ub]
            ELSE is_prime_loop_strict(n, i + 6, ub \/ sq.ub)
       ELSE [val |-> 1, ub |-> ub \/ sq.ub]

\* the for loop of mathlib_is_prime (n > 3 here, so % is the mathematical one)
RECURSIVE is_prime_loop(_, _, _)
is_prime_loop(n, i, ub) ==
    LET sq == CMul(i, i)
    IN IF sq.val <= n
       THEN IF n % i = 0 \/ n % (i + 2) = 0
            THEN [val |-> 0, ub |-> ub \/ sq.ub]
            ELSE is_prime_loop(n, i + 6, ub \/ sq.ub)
       ELSE [val |-> 1, ub |-> ub \/ sq.ub]

\* mathlib_is_prime, after the counter
is_prime_eval(n) ==
    IF n <= 1 THEN Val(0)
    ELSE IF n <= 3 THEN Val(1)
    ELSE IF n % 2 = 0 \/ n % 3 = 0 THEN Val(0)
    ELSE is_prime_loop(n, 5, FALSE)

\* the for loop of mathlib_array_sum over array[i+1 .. size] (1-based here)
RECURSIVE array_sum_loop(_, _, _, _, _)
array_sum_loop(array, size, i, sum, ub) ==
    IF i < size
    THEN LET s == CAdd(sum, array[i + 1])
         IN array_sum_loop(array, size, i + 1, s.val, ub \/ s.ub)
    ELSE [val |-> sum, ub |-> ub]

\* the for loop of mathlib_array_max
RECURSIVE array_max_loop(_, _, _, _)
array_max_loop(array, size, i, max) ==
    IF i < size
    THEN array_max_loop(array, size, i + 1, IF array[i + 1] > max THEN array[i + 1] ELSE max)
    ELSE max

\* the for loop of mathlib_array_min
RECURSIVE array_min_loop(_, _, _, _)
array_min_loop(array, size, i, min) ==
    IF i < size
    THEN array_min_loop(array, size, i + 1, IF array[i + 1] < min THEN array[i + 1] ELSE min)
    ELSE min

(* ------------------------------------------------------------------ *)
(* Doubles are modelled by the exact rationals <<num, den>>, den > 0, *)
(* in lowest terms; the library's double arithmetic is one division   *)
(* and one square root.                                               *)
(* ------------------------------------------------------------------ *)
RECURSIVE Euclid(_, _)
Euclid(x, y) == IF y = 0 THEN x ELSE Euclid(y, x % y)

\* n/d for a denominator d > 0 (n may be any int)
Frac(n, d) ==
    LET g == Euclid(d, n % d)
    IN <<n \div g, d \div g>>

\* sqrt(n) for an n >= 0: the root when n is a perfect square, else the radicand
Sqrt(n) ==
    IF \E r \in 0..n : r * r = n
    THEN [kind |-> "double", frac |-> Frac(CHOOSE r \in 0..n : r * r = n, 1)]
    ELSE [kind |-> "sqrt", of |-> n]

(* ------------------------------------------------------------------ *)
(* State                                                              *)
(* ------------------------------------------------------------------ *)
VARIABLES
    g_random_seed,  \* static unsigned int g_random_seed, as four bytes
    g_call_count,   \* static int g_call_count
    call,           \* the last library call made: [op, args, info]
    ret,            \* what it returned, by kind: int val, longlong ll, double frac,
                    \* uint u32, str; kind "abort": the process died
    test_array,     \* the caller's int array, as the library leaves it
    prng_hist,      \* the seed last installed, and random()'s results since
    frame,          \* the locals of a mathlib_gcd call in progress
    threads         \* concurrent callers inside mathlib_random: [pc, cnt, seed, left, got]

vars == <<g_random_seed, g_call_count, call, ret, test_array, prng_hist, frame, threads>>

IntRet(v) == [kind |-> "int", val |-> v]

Abort == [kind |-> "abort", val |-> 0]

Pending == [kind |-> "pending", val |-> 0]

NoFrame == [fn |-> "none", a |-> 0, b |-> 0]

\* what a build may make of an evaluation: its value, or, when it was
\* undefined, also a trap (-ftrapv, a sanitizer)
Outcomes(e) == IF e.ub THEN {IntRet(e.val), Abort} ELSE {IntRet(e.val)}

\* the library is loaded, no call is in progress, the process is alive
Alive == frame.fn = "none" /\ ret.kind # "abort"

\* g_call_count++ (the model stops making calls at MaxCalls)
Counted == g_call_count < MaxCalls /\ g_call_count' = g_call_count + 1

Returns(op, args, info, r) ==
    /\ call' = [op |-> op, args |-> args, info |-> info]
    /\ ret' = r

(* ------------------------------------------------------------------ *)
(* Load: the static initialisers and the constructor mathlib_init     *)
(* ------------------------------------------------------------------ *)
mathlib_init ==
    /\ g_random_seed = IntBytes(INIT_SEED)
    /\ g_call_count = 0

Loaded(arrays, left) ==
    /\ mathlib_init
    /\ call = [op |-> "load", args |-> <<>>, info |-> NoEval]
    /\ ret = [kind |-> "void", val |-> 0]
    /\ test_array \in arrays
    /\ prng_hist = [x |-> IntBytes(INIT_SEED), log |-> <<>>]
    /\ frame = NoFrame
    /\ threads = [t \in 1..NThreads |->
                    [pc |-> "idle", cnt |-> 0, seed |-> IntBytes(0), left |-> left, got |-> <<>>]]

(* ------------------------------------------------------------------ *)
(* Version                                                            *)
(* ------------------------------------------------------------------ *)
mathlib_version ==
    /\ Alive /\ Counted
    /\ Returns("version", <<>>, NoEval, [kind |-> "str", str |-> VERSION_STRING])
    /\ UNCHANGED <<g_random_seed, test_array, prng_hist, frame, threads>>

mathlib_version_major ==
    /\ Alive
    /\ Returns("version_major", <<>>, NoEval, IntRet(VERSION_MAJOR))
    /\ UNCHANGED <<g_random_seed, g_call_count, test_array, prng_hist, frame, threads>>

mathlib_version_minor ==
    /\ Alive
    /\ Returns("version_minor", <<>>, NoEval, IntRet(VERSION_MINOR))
    /\ UNCHANGED <<g_random_seed, g_call_count, test_array, prng_hist, frame, threads>>

(* ------------------------------------------------------------------ *)
(* Basic math                                                         *)
(* ------------------------------------------------------------------ *)
mathlib_add(a, b) ==
    /\ Alive /\ Counted
    /\ LET e == add_eval(a, b)
       IN \E r \in Outcomes(e) : Returns("add", <<a, b>>, e, r)
    /\ UNCHANGED <<g_random_seed, test_array, prng_hist, frame, threads>>

mathlib_subtract(a, b) ==
    /\ Alive /\ Counted
    /\ LET e == subtract_eval(a, b)
       IN \E r \in Outcomes(e) : Returns("subtract", <<a, b>>, e, r)
    /\ UNCHANGED <<g_random_seed, test_array, prng_hist, frame, threads>>

mathlib_multiply(a, b) ==
    /\ Alive /\ Counted
    /\ LET e == multiply_eval(a, b)
       IN \E r \in Outcomes(e) : Returns("multiply", <<a, b>>, e, r)
    /\ UNCHANGED <<g_random_seed, test_array, prng_hist, frame, threads>>

\* a and b are doubles with integer values
mathlib_divide(a, b) ==
    /\ Alive /\ Counted
    /\ Returns("divide", <<a, b>>, NoEval,
               [kind |-> "double", frac |-> IF b = 0 THEN Frac(0, 1) ELSE Frac(a, b)])
    /\ UNCHANGED <<g_random_seed, test_array, prng_hist, frame, threads>>

(* ------------------------------------------------------------------ *)
(* Advanced operations                                                *)
(* ------------------------------------------------------------------ *)
mathlib_factorial(n) ==
    /\ Alive /\ Counted
    /\ LET e == factorial_eval(n)
       IN \/ Returns("factorial", <<n>>, e, [kind |-> "longlong", ll |-> e.ll])
          \/ e.ub /\ Returns("factorial", <<n>>, e, Abort)
    /\ UNCHANGED <<g_random_seed, test_array, prng_hist, frame, threads>>

mathlib_fibonacci(n) ==
    /\ Alive /\ Counted
    /\ LET e == fibonacci_eval(n)
       IN \E r \in Outcomes(e) : Returns("fibonacci", <<n>>, e, r)
    /\ UNCHANGED <<g_random_seed, test_array, prng_hist, frame, threads>>

\* mathlib_gcd up to its loop: the counter, a = abs(a), b = abs(b)
mathlib_gcd(a, b) ==
    /\ Alive /\ Counted
    /\ LET aa == CAbs(a)
           ab == CAbs(b)
       IN \/ /\ frame' = [fn |-> "gcd", a |-> aa.val, b |-> ab.val]
             /\ Returns("gcd", <<a, b>>, [val |-> 0, ub |-> aa.ub \/ ab.ub, iters |-> 0], Pending)
          \/ /\ aa.ub \/ ab.ub
             /\ frame' = NoFrame
             /\ Returns("gcd", <<a, b>>, [val |-> 0, ub |-> TRUE, iters |-> 0], Abort)
    /\ UNCHANGED <<g_random_seed, test_array, prng_hist, threads>>

\* a pass of the loop that forgets a = temp
gcd_step_keeps_a(f) ==
    LET r == CRem(f.a, f.b)
    IN [a |-> f.a, b |-> r.val, ub |-> r.ub]

\* one pass of while (b != 0) { temp = b; b = a % b; a = temp; }
gcd_step(f) ==
    LET r == CRem(f.a, f.b)
    IN [a |-> f.b, b |-> r.val, ub |-> r.ub]

mathlib_gcd_loop ==
    /\ frame.fn = "gcd" /\ frame.b # 0
    /\ LET s == gcd_step(frame)
       IN \/ /\ frame' = [fn |-> "gcd", a |-> s.a, b |-> s.b]
             /\ call' = [call EXCEPT !.info.iters = @ + 1, !.info.ub = @ \/ s.ub]
             /\ ret' = ret
          \/ /\ s.ub
             /\ frame' = NoFrame
             /\ call' = [call EXCEPT !.info.ub = TRUE]
             /\ ret' = Abort
    /\ UNCHANGED <<g_random_seed, g_call_count, test_array, prng_hist, threads>>

mathlib_gcd_return ==
    /\ frame.fn = "gcd" /\ frame.b = 0
    /\ frame' = NoFrame
    /\ ret' = IntRet(frame.a)
    /\ UNCHANGED <<g_random_seed, g_call_count, call, test_array, prng_hist, threads>>

mathlib_is_prime(n) ==
    /\ Alive /\ Counted
    /\ LET e == is_prime_eval(n)
       IN \E r \in Outcomes(e) : Returns("is_prime", <<n>>, e, r)
    /\ UNCHANGED <<g_random_seed, test_array, prng_hist, frame, threads>>

(* ------------------------------------------------------------------ *)
(* Array operations.  array is the pointer the caller passes: NULL or *)
(* the address of test_array; size never exceeds the array's length.  *)
(* ------------------------------------------------------------------ *)
ArrayArgs(array, size) == [array |-> array, size |-> size, elems |-> test_array]

\* mathlib_array_sum with its loop started at i = 1
array_sum_eval_from_second(array, elems, size) ==
    IF array = "NULL" \/ size <= 0 THEN Val(0)
    ELSE array_sum_loop(elems, size, 1, 0, FALSE)

\* the body of mathlib_array_sum after the counter
array_sum_eval(array, elems, size) ==
    IF array = "NULL" \/ size <= 0 THEN Val(0)
    ELSE array_sum_loop(elems, size, 0, 0, FALSE)

array_max_eval(array, elems, size) ==
    IF array = "NULL" \/ size <= 0 THEN Val(INT_MIN)
    ELSE Val(array_max_loop(elems, size, 1, elems[1]))

array_min_eval(array, elems, size) ==
    IF array = "NULL" \/ size <= 0 THEN Val(INT_MAX)
    ELSE Val(array_min_loop(elems, size, 1, elems[1]))

\* the counter after mathlib_array_average entered with the counter at c:
\* its own g_call_count++, and the one of the mathlib_array_sum it calls
array_average_count(c, array, size) ==
    IF array = "NULL" \/ size <= 0 THEN c + 1 ELSE (c + 1) + 1

mathlib_array_sum(array, size) ==
    /\ Alive /\ Counted
    /\ LET e == array_sum_eval(array, test_array, size)
       IN \E r \in Outcomes(e) : Returns("array_sum", ArrayArgs(array, size), e, r)
    /\ UNCHANGED <<g_random_seed, test_array, prng_hist, frame, threads>>

mathlib_array_average(array, size) ==
    /\ Alive
    /\ g_call_count < MaxCalls
    /\ g_call_count' = array_average_count(g_call_count, array, size)
    /\ LET e == array_sum_eval(array, test_array, size)
           q == [kind |-> "double",
                 frac |-> IF array = "NULL" \/ size <= 0 THEN Frac(0, 1) ELSE Frac(e.val, size)]
       IN \/ Returns("array_average", ArrayArgs(array, size), e, q)
          \/ e.ub /\ Returns("array_average", ArrayArgs(array, size), e, Abort)
    /\ UNCHANGED <<g_random_seed, test_array, prng_hist, frame, threads>>

mathlib_array_max(array, size) ==
    /\ Alive /\ Counted
    /\ LET e == array_max_eval(array, test_array, size)
       IN Returns("array_max", ArrayArgs(array, size), e, IntRet(e.val))
    /\ UNCHANGED <<g_random_seed, test_array, prng_hist, frame, threads>>

mathlib_array_min(array, size) ==
    /\ Alive /\ Counted
    /\ LET e == array_min_eval(array, test_array, size)
       IN Returns("array_min", ArrayArgs(array, size), e, IntRet(e.val))
    /\ UNCHANGED <<g_random_seed, test_array, prng_hist, frame, threads>>

(* ------------------------------------------------------------------ *)
(* Callback: NULL, or square_callback of test_mathlib.c, which does   *)
(* not call into the library                                          *)
(* ------------------------------------------------------------------ *)
square_callback(x) == CMul(x, x)

apply_operation_eval(value, operation) ==
    IF operation = "NULL" THEN Val(value) ELSE square_callback(value)

mathlib_apply_operation(value, operation) ==
    /\ Alive /\ Counted
    /\ LET e == apply_operation_eval(value, operation)
       IN \E r \in Outcomes(e) : Returns("apply_operation", <<value, operation>>, e, r)
    /\ UNCHANGED <<g_random_seed, test_array, prng_hist, frame, threads>>

(* ------------------------------------------------------------------ *)
(* Global state                                                       *)
(* ------------------------------------------------------------------ *)
mathlib_set_global_seed(seed) ==
    /\ Alive /\ Counted
    /\ g_random_seed' = seed
    /\ prng_hist' = [x |-> seed, log |-> <<>>]
    /\ Returns("set_global_seed", <<seed>>, NoEval, [kind |-> "void", val |-> 0])
    /\ UNCHANGED <<test_array, frame, threads>>

\* a mathlib_get_global_seed that puts the seed back to its initial value
mathlib_get_global_seed_resetting ==
    /\ Alive /\ Counted
    /\ g_random_seed' = IntBytes(INIT_SEED)
    /\ Returns("get_global_seed", <<>>, NoEval, [kind |-> "uint", u32 |-> g_random_seed])
    /\ UNCHANGED <<test_array, prng_hist, frame, threads>>

mathlib_get_global_seed ==
    /\ Alive /\ Counted
    /\ Returns("get_global_seed", <<>>, NoEval, [kind |-> "uint", u32 |-> g_random_seed])
    /\ UNCHANGED <<g_random_seed, test_array, prng_hist, frame, threads>>

\* the update of the seed without & 0x7fffffff
random_next_unmasked(seed) == U32Add(U32Mul(seed, IntBytes(LCG_A)), IntBytes(LCG_C))

\* (g_random_seed * 1103515245 + 12345) & 0x7fffffff, in unsigned int
random_next(seed) == U32Mask31(U32Add(U32Mul(seed, IntBytes(LCG_A)), IntBytes(LCG_C)))

\* (int)(g_random_seed % RAND_MAX)
random_result(seed) == U32ModRandMax(seed)

mathlib_random ==
    /\ Alive /\ Counted
    /\ g_random_seed' = random_next(g_random_seed)
    /\ prng_hist' = [prng_hist EXCEPT !.log = Append(@, random_result(g_random_seed'))]
    /\ Returns("random", <<>>, NoEval, IntRet(random_result(g_random_seed')))
    /\ UNCHANGED <<test_array, frame, threads>>

(* ------------------------------------------------------------------ *)
(* Point distance: a point is NULL or a MathPoint with integer-valued *)
(* coordinates                                                        *)
(* ------------------------------------------------------------------ *)
NullPoint == [null |-> TRUE, x |-> 0, y |-> 0]

MathPoint(x, y) == [null |-> FALSE, x |-> x, y |-> y]

mathlib_point_distance(p1, p2) ==
    /\ Alive /\ Counted
    /\ Returns("point_distance", <<p1, p2>>, NoEval,
               IF p1.null \/ p2.null THEN [kind |-> "double", frac |-> Frac(-1, 1)]
               ELSE LET dx == p2.x - p1.x
                        dy == p2.y - p1.y
                    IN Sqrt(dx * dx + dy * dy))
    /\ UNCHANGED <<g_random_seed, test_array, prng_hist, frame, threads>>

\* the entry point the header does not declare
mathlib_get_call_count ==
    /\ Alive
    /\ Returns("get_call_count", <<>>, NoEval, IntRet(g_call_count))
    /\ UNCHANGED <<g_random_seed, g_call_count, test_array, prng_hist, frame, threads>>

(* ------------------------------------------------------------------ *)
(* Concurrent callers of mathlib_random.  The globals are plain       *)
(* statics: g_call_count++ is a load and a store, and so is the       *)
(* update of g_random_seed; the return expression loads the seed      *)
(* again.                                                             *)
(* ------------------------------------------------------------------ *)
Threads == 1..NThreads

random_load_count(t) ==
    /\ threads[t].pc = "idle" /\ threads[t].left > 0
    /\ threads' = [threads EXCEPT ![t].pc = "count_store", ![t].cnt = g_call_count]
    /\ UNCHANGED <<g_random_seed, g_call_count, call, ret, test_array, prng_hist, frame>>

random_store_count(t) ==
    /\ threads[t].pc = "count_store"
    /\ g_call_count' = threads[t].cnt + 1
    /\ threads' = [threads EXCEPT ![t].pc = "seed_load"]
    /\ UNCHANGED <<g_random_seed, call, ret, test_array, prng_hist, frame>>

random_load_seed(t) ==
    /\ threads[t].pc = "seed_load"
    /\ threads' = [threads EXCEPT ![t].pc = "seed_store", ![t].seed = g_random_seed]
    /\ UNCHANGED <<g_random_seed, g_call_count, call, ret, test_array, prng_hist, frame>>

random_store_seed(t) ==
    /\ threads[t].pc = "seed_store"
    /\ g_random_seed' = random_next(threads[t].seed)
    /\ threads' = [threads EXCEPT ![t].pc = "return"]
    /\ UNCHANGED <<g_call_count, call, ret, test_array, prng_hist, frame>>

random_return(t) ==
    /\ threads[t].pc = "return"
    /\ threads' = [threads EXCEPT ![t].pc = "idle", ![t].left = @ - 1,
                                  ![t].got = Append(@, random_result(g_random_seed))]
    /\ UNCHANGED <<g_random_seed, g_call_count, call, ret, test_array, prng_hist, frame>>

(* ------------------------------------------------------------------ *)
(* Arguments the callers pass                                         *)
(* ------------------------------------------------------------------ *)
Negated(S) == {-x : x \in S}

\* ints around INT_MIN, 0 and INT_MAX, and factors whose products sit at the limits
EdgeInts ==
    LET factors == {2, 32768, 46341, 65536, 1073741824}
    IN {INT_MIN + k : k \in 0..EdgeK} \cup ((-EdgeK)..EdgeK) \cup {INT_MAX - k : k \in 0..EdgeK}
         \cup factors \cup Negated(factors)

SmallInts == {-7, 0, 2, INT_MAX}

SmallDoubles == {0, 5, 10}

\* unsigned seeds below and above 2^31 (IntBytes(-1) is 0xffffffff)
SeedInputs ==
    {IntBytes(0), IntBytes(1), IntBytes(42), IntBytes(65535), IntBytes(1073741824),
     IntBytes(INT_MAX), IntBytes(INT_MIN), IntBytes(-1)}

SmallSeeds == {IntBytes(42), IntBytes(-1)}

ArrayVals == {INT_MIN, -1, 0, 1, INT_MAX}

Arrays == UNION {[1..n -> ArrayVals] : n \in 0..MaxLen}

SmallArrays == {<<>>, <<3, 1, 2>>}

Pointers == {"NULL", "test_array"}

Sizes == (-1)..Len(test_array)

Callbacks == {"NULL", "square_callback"}

Points == {NullPoint, MathPoint(0, 0), MathPoint(3, 4)}

FactArgs == (-2)..(FACT_LIMIT + MaxFactOver)

FibArgs == (-1)..MaxFibN

PrimeArgs == (-2)..MaxPrimeN

GcdArgs == ((-MaxGcdN)..MaxGcdN) \cup {-48, -18, 18, 48}

(* ------------------------------------------------------------------ *)
(* Spec: one caller, every exported operation                         *)
(* ------------------------------------------------------------------ *)
Init == Loaded(SmallArrays, 0)

\* the same load with one caller array, for the specifications that pass no array
InitPlain == Loaded({<<1, 2, 3>>}, 0)

Next ==
    \/ mathlib_version
    \/ mathlib_version_major
    \/ mathlib_version_minor
    \/ \E a, b \in SmallInts : mathlib_add(a, b)
    \/ \E a, b \in SmallInts : mathlib_subtract(a, b)
    \/ \E a, b \in SmallInts : mathlib_multiply(a, b)
    \/ \E a, b \in SmallDoubles : mathlib_divide(a, b)
    \/ \E n \in {-1, 5, 21} : mathlib_factorial(n)
    \/ \E n \in {0, 10} : mathlib_fibonacci(n)
    \/ \E a, b \in {-4, 0, 18, 48} : mathlib_gcd(a, b)
    \/ mathlib_gcd_loop
    \/ mathlib_gcd_return
    \/ \E n \in {1, 17, 18} : mathlib_is_prime(n)
    \/ \E array \in Pointers, size \in Sizes : mathlib_array_sum(array, size)
    \/ \E array \in Pointers, size \in Sizes : mathlib_array_average(array, size)
    \/ \E array \in Pointers, size \in Sizes : mathlib_array_max(array, size)
    \/ \E array \in Pointers, size \in Sizes : mathlib_array_min(array, size)
    \/ \E value \in {-3, 7}, operation \in Callbacks : mathlib_apply_operation(value, operation)
    \/ \E seed \in SmallSeeds : mathlib_set_global_seed(seed)
    \/ mathlib_get_global_seed
    \/ mathlib_random
    \/ \E p1, p2 \in Points : mathlib_point_distance(p1, p2)
    \/ mathlib_get_call_count

Spec == Init /\ [][Next]_vars

(* ------------------------------------------------------------------ *)
(* SpecArith: the int arithmetic at the limits of int                 *)
(* ------------------------------------------------------------------ *)
NextArith ==
    \/ \E a, b \in EdgeInts : mathlib_add(a, b)
    \/ \E a, b \in EdgeInts : mathlib_subtract(a, b)
    \/ \E a, b \in EdgeInts : mathlib_multiply(a, b)

SpecArith == InitPlain /\ [][NextArith]_vars

(* ------------------------------------------------------------------ *)
(* SpecSeq: factorial, fibonacci, gcd and is_prime over ranges; the   *)
(* gcd loop runs to its end once entered                              *)
(* ------------------------------------------------------------------ *)
NextSeq ==
    \/ \E n \in FactArgs : mathlib_factorial(n)
    \/ \E n \in FibArgs : mathlib_fibonacci(n)
    \/ \E a, b \in GcdArgs : mathlib_gcd(a, b)
    \/ mathlib_gcd_loop
    \/ mathlib_gcd_return
    \/ \E n \in PrimeArgs : mathlib_is_prime(n)

SpecSeq ==
    InitPlain /\ [][NextSeq]_vars /\ WF_vars(mathlib_gcd_loop) /\ WF_vars(mathlib_gcd_return)

(* ------------------------------------------------------------------ *)
(* SpecArray: the array operations over every short array             *)
(* ------------------------------------------------------------------ *)
InitArray == Loaded(Arrays, 0)

NextArray ==
    \/ \E array \in Pointers, size \in Sizes : mathlib_array_sum(array, size)
    \/ \E array \in Pointers, size \in Sizes : mathlib_array_average(array, size)
    \/ \E array \in Pointers, size \in Sizes : mathlib_array_max(array, size)
    \/ \E array \in Pointers, size \in Sizes : mathlib_array_min(array, size)

SpecArray == InitArray /\ [][NextArray]_vars

(* ------------------------------------------------------------------ *)
(* SpecPrng: the generator under every kind of seed                   *)
(* ------------------------------------------------------------------ *)
NextPrng ==
    \/ \E seed \in SeedInputs : mathlib_set_global_seed(seed)
    \/ mathlib_get_global_seed
    \/ mathlib_random
    \/ mathlib_get_call_count

SpecPrng == InitPlain /\ [][NextPrng]_vars

(* ------------------------------------------------------------------ *)
(* SpecRace: NThreads callers, CallsPerThread calls of mathlib_random *)
(* each, interleaved at the loads and stores of the globals           *)
(* ------------------------------------------------------------------ *)
InitRace == Loaded({<<>>}, CallsPerThread)

NextRace ==
    \/ \E t \in Threads : random_load_count(t)
    \/ \E t \in Threads : random_store_count(t)
    \/ \E t \in Threads : random_load_seed(t)
    \/ \E t \in Threads : random_store_seed(t)
    \/ \E t \in Threads : random_return(t)

SpecRace == InitRace /\ [][NextRace]_vars

(* ================================================================== *)
(* Properties                                                         *)
(* ================================================================== *)

\* the operations that do not touch g_call_count
UncountedOps == {"version_major", "version_minor", "get_call_count"}

(* C1: every invocation of a public operation other than version_major,
   version_minor and get_call_count raises the call counter by exactly one,
   whatever its arguments (a non-empty array passed to array_average
   included); those three leave it unchanged.  A step taken while no call is
   in progress is one invocation, of the operation call' names. *)
C1_CountsEachCallOnce ==
    [][frame.fn = "none" =>
          g_call_count' = g_call_count + (IF call'.op \in UncountedOps THEN 0 ELSE 1)]_vars

(* C2: mathlib_add returns 0 when the exact sum leaves [INT_MIN, INT_MAX] and
   the exact sum otherwise, mathlib_subtract likewise for the exact
   difference, and the pre-check evaluates no expression that leaves the
   int range. *)
C2_AddSubtractExact ==
    /\ call.op = "add" =>
         LET a == call.args[1]
             b == call.args[2]
         IN /\ ret = IntRet(IF WFits(WAdd(W(a), W(b))) THEN a + b ELSE 0)
            /\ ~call.info.pre
    /\ call.op = "subtract" =>
         LET a == call.args[1]
             b == call.args[2]
         IN /\ ret = IntRet(IF WFits(WSub(W(a), W(b))) THEN a - b ELSE 0)
            /\ ~call.info.pre

\* subtract(-1, INT_MIN): the pre-check computes INT_MAX + INT_MIN, the result is INT_MAX
C2_Witness ==
    /\ call.op = "subtract"
    /\ call.args = <<-1, INT_MIN>>
    /\ ret = IntRet(INT_MAX)

(* C3: mathlib_multiply returns 0 when the exact product leaves
   [INT_MIN, INT_MAX] and the exact product in every other case, products
   equal to INT_MIN and arguments equal to INT_MIN included. *)
C3_MultiplyExact ==
    call.op = "multiply" =>
        LET a == call.args[1]
            b == call.args[2]
        IN ret = IntRet(IF MulFits(a, b) THEN a * b ELSE 0)

\* x + y mod 2^31 for 0 <= x, y < 2^31
AddMod31(p, q) == IF p > INT_MAX - q THEN (p - (INT_MAX - q)) - 1 ELSE p + q

\* x * 2^k mod 2^31 for 0 <= x < 2^31 and 0 <= k <= 30
Shl31(x, k) == IF k = 0 THEN x ELSE (x % (2 ^ (31 - k))) * (2 ^ k)

\* x * (y mod 2^(k+1)) mod 2^31: the sum of x * 2^j over the bits j <= k set in y
RECURSIVE MulBits31(_, _, _)
MulBits31(x, y, k) ==
    IF k < 0 THEN 0
    ELSE IF (y \div (2 ^ k)) % 2 = 1 THEN AddMod31(MulBits31(x, y, k - 1), Shl31(x, k))
    ELSE MulBits31(x, y, k - 1)

\* x * y mod 2^31 for 0 <= x, y < 2^31
MulMod31(x, y) == MulBits31(x, y, 30)

\* s mod 2^31 of an unsigned 32-bit s
Low31(s) == (s[4] % 128) * 16777216 + s[3] * 65536 + s[2] * 256 + s[1]

\* (s * 1103515245 + 12345) mod 2^31
LcgStep(s31) == AddMod31(MulMod31(s31, LCG_A), LCG_C)

\* the n-th iterate of LcgStep on s31 (each iterate is computed before the next)
RECURSIVE LcgSeed(_, _)
LcgSeed(s31, n) ==
    IF n = 0 THEN s31
    ELSE CHOOSE r \in {LcgStep(v) : v \in {LcgSeed(s31, n - 1)}} : TRUE

(* C4: each mathlib_random replaces the seed s by (s * 1103515245 + 12345)
   mod 2^31 and returns the new seed mod RAND_MAX; so after n >= 1 calls
   since the seed x was installed the seed is below 2^31 and equals the n-th
   iterate of x, and the results are a function of x and n alone, each in
   [0, RAND_MAX). *)
C4_RandomIsLcg ==
    \A n \in {Len(prng_hist.log)}, x \in {Low31(prng_hist.x)} :
       /\ n > 0 => /\ g_random_seed[4] < 128
                   /\ Low31(g_random_seed) = LcgSeed(x, n)
       /\ \A i \in 1..n :
            /\ prng_hist.log[i] = LcgSeed(x, i) % RAND_MAX
            /\ prng_hist.log[i] >= 0 /\ prng_hist.log[i] < RAND_MAX
       /\ call.op = "random" => n > 0 /\ ret = IntRet(prng_hist.log[n])

\* two results since set_global_seed(0xffffffff)
C4_Witness ==
    /\ call.op = "random"
    /\ prng_hist.x = IntBytes(-1)
    /\ Len(prng_hist.log) = 2

\* the exact sum of xs[1..k], wide
RECURSIVE SumW(_, _)
SumW(xs, k) == IF k = 0 THEN W(0) ELSE WAdd(SumW(xs, k - 1), W(xs[k]))

ArrayOps == {"array_sum", "array_max", "array_min"}

\* what C5 says of array_max, array_min, the empty cases and the input array
ArrayFacts ==
    LET xs == call.args.elems
        n == call.args.size
        empty == call.args.array = "NULL" \/ n <= 0
    IN /\ call.op \in ArrayOps => test_array = xs
       /\ call.op = "array_sum" /\ empty => ret = IntRet(0)
       /\ call.op = "array_max" =>
            IF empty THEN ret = IntRet(INT_MIN)
            ELSE /\ ret.kind = "int"
                 /\ \E i \in 1..n : xs[i] = ret.val
                 /\ \A i \in 1..n : xs[i] <= ret.val
       /\ call.op = "array_min" =>
            IF empty THEN ret = IntRet(INT_MAX)
            ELSE /\ ret.kind = "int"
                 /\ \E i \in 1..n : xs[i] = ret.val
                 /\ \A i \in 1..n : xs[i] >= ret.val

NonEmptySum == call.op = "array_sum" /\ call.args.array # "NULL" /\ call.args.size > 0

(* C5 as stated: the empty cases return 0, INT_MIN and INT_MAX; array_max and
   array_min return an extremal element; array_sum returns the sum of the
   elements whenever that sum fits in 32 bits; the input array is left as it
   was. *)
C5_ArrayOpsSumFits ==
    /\ ArrayFacts
    /\ NonEmptySum /\ WFits(SumW(call.args.elems, call.args.size))
         => ret = IntRet(WWrap(SumW(call.args.elems, call.args.size)))

(* C5 amended: as above, but array_sum returns the sum of the elements when
   every partial sum array[0] + ... + array[i] fits in 32 bits. *)
C5_ArrayOpsPartialSumsFit ==
    /\ ArrayFacts
    /\ NonEmptySum /\ (\A k \in 1..call.args.size : WFits(SumW(call.args.elems, k)))
         => ret = IntRet(WWrap(SumW(call.args.elems, call.args.size)))

\* array_sum over {INT_MAX, INT_MIN, 1}: every partial sum fits, the sum is 0
C5_Witness ==
    /\ call.op = "array_sum"
    /\ call.args.array = "test_array"
    /\ call.args.size = 3
    /\ call.args.elems = <<INT_MAX, INT_MIN, 1>>
    /\ ret = IntRet(0)

\* lo * (lo+1) * ... * hi, from the top down
RECURSIVE Product(_, _)
Product(lo, hi) == IF lo > hi THEN LLMag(1) ELSE LLMulSmall(Product(lo + 1, hi), lo)

\* 20! = 2432902008176640000
Factorial20 == <<640000, 8176, 432902, 2>>

(* C6: mathlib_factorial(n) is -1 for n < 0, 1 for n in {0, 1}, and the
   product of 2..min(n, 20) for n >= 2; so it is 20! for every n > 20, the
   loop runs at most 19 times, and no intermediate product leaves the signed
   64-bit range. *)
C6_FactorialCapped ==
    call.op = "factorial" =>
        LET n == call.args[1]
        IN /\ ret.kind = "longlong"
           /\ n < 0 => ret.ll = LL(-1)
           /\ n \in {0, 1} => ret.ll = LL(1)
           /\ n >= 2 => ret.ll = [sign |-> 1, mag |-> Product(2, IF n < 20 THEN n ELSE 20)]
           /\ n = 5 => ret.ll = LL(120)
           /\ n > 20 => ret.ll = [sign |-> 1, mag |-> Factorial20]
           /\ call.info.iters <= 19
           /\ ~call.info.ub

\* factorial(21) returned 20!
C6_Witness ==
    /\ call.op = "factorial"
    /\ call.args = <<21>>
    /\ ret.ll.mag = Factorial20
    /\ call.info.iters = 19

IsPrime(n) == n >= 2 /\ \A d \in 2..(n - 1) : n % d # 0

(* C7: for every n of the range, mathlib_is_prime(n) is non-zero if and only
   if n is prime: 0 for n <= 1, 1 for 2 and 3, 0 for the multiples of 2 and
   3, and otherwise the trial division by 6k-1 and 6k+1 finds a divisor
   exactly when n is composite. *)
C7_IsPrimeExact ==
    call.op = "is_prime" =>
        LET n == call.args[1]
        IN /\ ret \in {IntRet(0), IntRet(1)}
           /\ (ret.val # 0) <=> IsPrime(n)
           /\ n <= 1 => ret.val = 0
           /\ n \in {2, 3} => ret.val = 1
           /\ n > 3 /\ (n % 2 = 0 \/ n % 3 = 0) => ret.val = 0

\* 169 = 13 * 13: free of 2 and 3, not divisible by 5, 7 or 11; found by i + 2 at i = 11
C7_Witness ==
    /\ call.op = "is_prime"
    /\ call.args = <<169>>
    /\ ret = IntRet(0)

Abs(x) == IF x < 0 THEN -x ELSE x

Divides(d, x) == \E k \in 0..Abs(x) : d * k = Abs(x)

\* g is the greatest common divisor of a and b (0 for a = b = 0)
IsGcd(g, a, b) ==
    /\ g >= 0
    /\ IF g = 0 THEN a = 0 /\ b = 0 ELSE Divides(g, a) /\ Divides(g, b)
    /\ \A d \in 1..(Abs(a) + Abs(b)) : Divides(d, a) /\ Divides(d, b) => Divides(d, g)

GcdReturned == call.op = "gcd" /\ frame.fn = "none"

GcdResult ==
    GcdReturned =>
        LET a == call.args[1]
            b == call.args[2]
        IN /\ ret.kind = "int"
           /\ IsGcd(ret.val, a, b)
           /\ b = 0 => ret.val = Abs(a)
           /\ a = 0 => ret.val = Abs(b)

\* every pass of the loop lowers b, which stays >= 0
GcdVariant == frame.fn = "gcd" /\ frame'.fn = "gcd" => frame'.b >= 0 /\ frame'.b < frame.b

(* C8: for all a and b of the range the Euclidean loop of mathlib_gcd
   terminates and returns the greatest common divisor of |a| and |b|:
   non-negative, a divisor of both, divisible by every common divisor, with
   gcd(a, 0) = |a|, gcd(0, b) = |b| and gcd(0, 0) = 0 (a value fixed by the
   common divisors of a and b, hence the same for (b, a) and (-a, b)). *)
C8_GcdTerminatesWithGcd ==
    /\ []GcdResult
    /\ [][GcdVariant]_vars
    /\ (frame.fn = "gcd") ~> (frame.fn = "none")

\* gcd(48, 18) returned 6 after three passes of the loop
C8_Witness ==
    /\ GcdReturned
    /\ call.args = <<48, 18>>
    /\ ret = IntRet(6)
    /\ call.info.iters = 3

(* C9: only set_global_seed and random write the seed.  prng_hist.x is the
   seed last installed (12345 by the load, s by set_global_seed(s)) and
   prng_hist.log the random() calls since: whatever other calls were made,
   the seed is x while the log is empty, and the log's iterate of x
   otherwise; get_global_seed returns it. *)
C9_SeedWrittenOnlyByPrng ==
    /\ Len(prng_hist.log) = 0 => g_random_seed = prng_hist.x
    /\ \A n \in {Len(prng_hist.log)}, x \in {Low31(prng_hist.x)} :
         n > 0 => g_random_seed = IntBytes(LcgSeed(x, n))
    /\ call.op = "get_global_seed" => ret = [kind |-> "uint", u32 |-> g_random_seed]

\* set_global_seed(42), one other call, then get_global_seed returned 42
C9_Witness ==
    /\ call.op = "get_global_seed"
    /\ g_call_count = 3
    /\ prng_hist = [x |-> IntBytes(42), log |-> <<>>]
    /\ ret.u32 = IntBytes(42)

AllReturned == \A t \in Threads : threads[t].pc = "idle" /\ threads[t].left = 0

(* C10: with concurrent callers, each g_call_count++ a load and a store, the
   counter never decreases from one observation to the next under any
   interleaving, and once every call has returned it equals the number of
   counted invocations made. *)
C10_CounterUnderRace ==
    /\ [](AllReturned => g_call_count = NThreads * CallsPerThread)
    /\ [][g_call_count' >= g_call_count]_vars

====
